---- MODULE Spec2Model ----
(***************************************************************************)
(* Model of run.py, the build-and-launch script of bare-metal-blasterball. *)
(*                                                                         *)
(* One run of the script is one behaviour.  The script is sequential: it   *)
(* parses four flags, builds two base argument lists, then runs external   *)
(* commands with subprocess.run, each of which blocks until the child      *)
(* returns.  Every subprocess.run is split into the step that starts the   *)
(* child and the step in which the child returns an exit code, so that     *)
(* ordering and gating between the external commands are observable.       *)
(*                                                                         *)
(* Strings: a Python string is modelled as the sequence of the pieces it   *)
(* is concatenated from (the literal segments and the interpolated values  *)
(* of an f-string), so <<root_dir, "/linker.ld">> is f'{root_dir}/linker.ld'*)
(* and a plain literal is a one-piece sequence.  The comma-separated option*)
(* strings given to -drive are cut at their commas, each piece after the   *)
(* first keeping its comma.  An argument list is a sequence of such        *)
(* strings.                                                                *)
(***************************************************************************)
EXTENDS Integers, Sequences, FiniteSets, TLC

\* ------------------------------------------------------------------ bounds
\* Exit codes of a child are drawn from (-MaxSig)..MaxExit: 0 is success,
\* positive values are failures, negative values are deaths by signal.
MaxExit == 2
MaxSig == 1

ExitCodes == (0 - MaxSig)..MaxExit

\* The flags the parser knows (store_true options: order and repetition on the
\* command line do not matter, so the command line is the set of flags given).
Flags == {"--bios", "--debug", "--build-only", "--release"}

\* The environment of the invoking process: a partial map from variable names
\* to values.
EnvVars == {"PATH", "RUSTFLAGS"}
EnvVals == {<<"inherited-1">>, <<"inherited-2">>}
Environs == UNION {[D -> EnvVals] : D \in SUBSET EnvVars}

VARIABLES
    argv,               \* the flags on the command line (input)
    environ,            \* os.environ of the script (input)
    pc,                 \* position of the script
    args,               \* the parsed namespace
    base_cargo_args,    \* __main__'s base_cargo_args
    base_qemu_args,     \* __main__'s base_qemu_args
    log,                \* the children started so far, in order, with what each was given and returned
    cargo_exit_code,    \* build_with_bios's local (<<>> = not assigned)
    objcopy_exit_code,  \* build_with_bios's local (<<>> = not assigned)
    build_ret,          \* value returned by build_with_bios / build_with_uefi (<<>> = not returned)
    exit_status         \* exit status of the script (<<>> = still running)

vars == <<argv, environ, pc, args, base_cargo_args, base_qemu_args, log,
          cargo_exit_code, objcopy_exit_code, build_ret, exit_status>>

\* ------------------------------------------------------- module-level names
root_dir == "<root_dir>"

Lit(s) == <<s>>

\* parser.parse_args(): each store_true option is True iff its flag is given.
parse_args(av) ==
    [bios       |-> "--bios" \in av,
     debug      |-> "--debug" \in av,
     build_only |-> "--build-only" \in av,
     release    |-> "--release" \in av]

\* ------------------------------------------------------------ pure helpers
\* 'release' if release else 'debug'
sub_dir(release) == IF release THEN "release" ELSE "debug"

\* variant of build_with_bios: release left at its default, False
build_BUILD_DIR_default(release) == <<root_dir, "/target/x86_64-bios-target/", sub_dir(FALSE)>>

\* BUILD_DIR of build_with_bios
build_BUILD_DIR(release) == <<root_dir, "/target/x86_64-bios-target/", sub_dir(release)>>

\* variant of run_with_bios: release left at its default, False
run_bios_BUILD_DIR_default(release) == <<root_dir, "/target/x86_64-bios-target/", sub_dir(FALSE)>>

\* BUILD_DIR of run_with_bios
run_bios_BUILD_DIR(release) == <<root_dir, "/target/x86_64-bios-target/", sub_dir(release)>>

\* variant of run_with_uefi: the BIOS build directory copied over
run_uefi_BUILD_DIR_bios(release) == <<root_dir, "/target/x86_64-bios-target/", sub_dir(release)>>

\* BUILD_DIR of run_with_uefi
run_uefi_BUILD_DIR(release) == <<root_dir, "/target/x86_64-unknown-uefi/", sub_dir(release)>>

\* target of __main__
target(a) ==
    IF a.bios THEN <<root_dir, "/x86_64-bios-target.json">> ELSE Lit("x86_64-unknown-uefi")

\* base_cargo_args after lines 59-66
main_base_cargo_args(a) ==
    <<Lit("cargo"), Lit("+nightly-2022-08-26"), Lit("b"), Lit("-p"), Lit("bootloader"),
      Lit("--target"), target(a),
      Lit("-Zbuild-std=core,compiler_builtins"),
      Lit("-Zbuild-std-features=compiler-builtins-mem")>>
    \o (IF a.release THEN <<Lit("--release")>> ELSE <<>>)

\* variant of line 68: only -S appended
main_base_qemu_args_S_only(a) ==
    <<Lit("qemu-system-x86_64"),
      Lit("-device"), Lit("ich9-intel-hda,debug=4"),
      Lit("-device"), Lit("hda-micro"), Lit("-device"), Lit("hda-micro")>>
    \o (IF a.debug THEN <<Lit("-S")>> ELSE <<>>)

\* base_qemu_args after lines 63-68
main_base_qemu_args(a) ==
    <<Lit("qemu-system-x86_64"),
      Lit("-device"), Lit("ich9-intel-hda,debug=4"),
      Lit("-device"), Lit("hda-micro"), Lit("-device"), Lit("hda-micro")>>
    \o (IF a.debug THEN <<Lit("-S"), Lit("-s")>> ELSE <<>>)

\* cargo of build_with_bios
cargo(base) == base \o <<Lit("--features"), Lit("bios")>>

\* variant of line 19: the environment replaced instead of extended
cargo_env_replaced(env) ==
    [k \in {"RUSTFLAGS"} |-> <<"-C link-args=", root_dir, "/linker.ld">>]

\* cargo_env of build_with_bios: dict(os.environ, RUSTFLAGS=...)
cargo_env(env) ==
    [k \in (DOMAIN env) \cup {"RUSTFLAGS"} |->
        IF k = "RUSTFLAGS" THEN <<"-C link-args=", root_dir, "/linker.ld">> ELSE env[k]]

objcopy_strip_debug(release) ==
    <<Lit("objcopy"), Lit("--only-keep-debug"),
      build_BUILD_DIR(release) \o <<"/bootloader">>,
      build_BUILD_DIR(release) \o <<"/bmb_sym">> >>

objcopy_output_binary(release) ==
    <<Lit("objcopy"), Lit("-O"), Lit("binary"),
      build_BUILD_DIR(release) \o <<"/bootloader">>,
      build_BUILD_DIR(release) \o <<"/bmb_bin">> >>

\* qemu of run_with_bios
qemu(base, release) ==
    base \o <<Lit("-drive"),
              <<"file=">> \o run_bios_BUILD_DIR(release) \o <<"/bmb_bin", ",format=raw">> >>

\* the argument list of run_with_uefi
uefi_qemu(base, release) ==
    base \o
    <<Lit("-s"),
      Lit("-accel"), Lit("kvm"),
      Lit("-drive"), <<"if=pflash", ",format=raw", ",unit=0", ",file=OVMF_CODE.fd", ",readonly=on">>,
      Lit("-drive"), <<"if=pflash", ",unit=1", ",format=raw", ",file=OVMF_VARS.fd">>,
      Lit("-drive"), <<"format=raw", ",file=fat:rw:">> \o run_uefi_BUILD_DIR(release),
      Lit("-cpu"), Lit("qemu64")>>

\* variant of line 23: only a positive code counts as a failure
cargo_failed_positive(c) == c > 0

\* line 23: cargo_exit_code != 0
cargo_failed(c) == c # 0

\* variant of line 26: only a positive code counts as a failure
objcopy_failed_positive(c) == c > 0

\* line 26: objcopy_exit_code != 0
objcopy_failed(c) == c # 0

\* variant of lines 69 / 73: the two branches exchanged
bios_branch_inverted(a) == ~a.bios

\* lines 69 / 73: if args.bios ... else ...
bios_branch(a) == a.bios

\* variant of lines 71 / 75: the --build-only test left out
ShouldRun_without_build_only(ret, a) == ret = 0

\* variant of lines 70 / 74: the test of the build's result left out
ShouldRun_without_result(ret, a) == ~a.build_only

\* variant of lines 71 / 75: the --build-only test inverted
ShouldRun_inverted_build_only(ret, a) == ret = 0 /\ a.build_only

\* lines 70-71 / 74-75: the build returned 0 and --build-only is not given
ShouldRun(ret, a) == ret = 0 /\ ~a.build_only

\* The status the interpreter exits with when the script runs off its end:
\* nothing in the script calls sys.exit, so the status is 0 whatever the
\* build functions returned.
ScriptExitStatus(ret) == 0

\* ------------------------------------------------------------ subprocess
\* subprocess.run(cmd, env=e): start a child.  env_given is FALSE when no env
\* argument is passed; the child then inherits os.environ.
Child(cmd, env_given, e) ==
    [argv |-> cmd, env_given |-> env_given, env |-> e, returncode |-> <<>>]

Start(cmd, env_given, e) == Append(log, Child(cmd, env_given, e))

\* the blocking child returns with exit code c
Returned(c) == [log EXCEPT ![Len(log)].returncode = <<c>>]

\* ------------------------------------------------------------------- Init
Init ==
    /\ argv \in SUBSET Flags
    /\ environ \in Environs
    /\ pc = "main"
    /\ args = parse_args({})
    /\ base_cargo_args = <<>>
    /\ base_qemu_args = <<>>
    /\ log = <<>>
    /\ cargo_exit_code = <<>>
    /\ objcopy_exit_code = <<>>
    /\ build_ret = <<>>
    /\ exit_status = <<>>

\* ---------------------------------------------------------------- actions
\* __main__, lines 57-68: parse the flags and build the two base lists.
Main ==
    /\ pc = "main"
    /\ args' = parse_args(argv)
    /\ base_cargo_args' = main_base_cargo_args(parse_args(argv))
    /\ base_qemu_args' = main_base_qemu_args(parse_args(argv))
    /\ pc' = "dispatch"
    /\ UNCHANGED <<argv, environ, log, cargo_exit_code, objcopy_exit_code, build_ret, exit_status>>

\* line 69 taken, build_with_bios lines 16-22: start cargo.
BiosCargoStart ==
    /\ pc = "dispatch"
    /\ bios_branch(args)
    /\ log' = Start(cargo(base_cargo_args), TRUE, cargo_env(environ))
    /\ pc' = "bios_cargo"
    /\ UNCHANGED <<argv, environ, args, base_cargo_args, base_qemu_args,
                   cargo_exit_code, objcopy_exit_code, build_ret, exit_status>>

\* lines 22-24: cargo returns; a non-zero code is returned by build_with_bios.
BiosCargoReturn ==
    /\ pc = "bios_cargo"
    /\ \E c \in ExitCodes :
        /\ log' = Returned(c)
        /\ cargo_exit_code' = <<c>>
        /\ IF cargo_failed(c)
             THEN build_ret' = <<c>> /\ pc' = "built"
             ELSE build_ret' = build_ret /\ pc' = "bios_strip_start"
    /\ UNCHANGED <<argv, environ, args, base_cargo_args, base_qemu_args,
                   objcopy_exit_code, exit_status>>

\* line 25: start objcopy --only-keep-debug.
BiosStripStart ==
    /\ pc = "bios_strip_start"
    /\ log' = Start(objcopy_strip_debug(args.release), FALSE, environ)
    /\ pc' = "bios_strip"
    /\ UNCHANGED <<argv, environ, args, base_cargo_args, base_qemu_args,
                   cargo_exit_code, objcopy_exit_code, build_ret, exit_status>>

\* variant of lines 25-27: a failed symbol extraction is run again
BiosStripReturn_retry ==
    /\ pc = "bios_strip"
    /\ \E c \in ExitCodes :
        /\ log' = Returned(c)
        /\ objcopy_exit_code' = <<c>>
        /\ pc' = IF objcopy_failed(c) THEN "bios_strip_start" ELSE "bios_bin_start"
    /\ UNCHANGED <<argv, environ, args, base_cargo_args, base_qemu_args,
                   cargo_exit_code, build_ret, exit_status>>

\* lines 25-27: the symbol extraction returns.
BiosStripReturn ==
    /\ pc = "bios_strip"
    /\ \E c \in ExitCodes :
        /\ log' = Returned(c)
        /\ objcopy_exit_code' = <<c>>
        /\ IF objcopy_failed(c)
             THEN build_ret' = <<c>> /\ pc' = "built"
             ELSE build_ret' = build_ret /\ pc' = "bios_bin_start"
    /\ UNCHANGED <<argv, environ, args, base_cargo_args, base_qemu_args,
                   cargo_exit_code, exit_status>>

\* line 28: start objcopy -O binary.
BiosBinStart ==
    /\ pc = "bios_bin_start"
    /\ log' = Start(objcopy_output_binary(args.release), FALSE, environ)
    /\ pc' = "bios_bin"
    /\ UNCHANGED <<argv, environ, args, base_cargo_args, base_qemu_args,
                   cargo_exit_code, objcopy_exit_code, build_ret, exit_status>>

\* variant of line 28: the raw-image extraction's code dropped, 0 returned
BiosBinReturn_returns_zero ==
    /\ pc = "bios_bin"
    /\ \E c \in ExitCodes : log' = Returned(c)
    /\ build_ret' = <<0>>
    /\ pc' = "built"
    /\ UNCHANGED <<argv, environ, args, base_cargo_args, base_qemu_args,
                   cargo_exit_code, objcopy_exit_code, exit_status>>

\* line 28: the raw-image extraction returns; its code is build_with_bios's result.
BiosBinReturn ==
    /\ pc = "bios_bin"
    /\ \E c \in ExitCodes :
        /\ log' = Returned(c)
        /\ build_ret' = <<c>>
    /\ pc' = "built"
    /\ UNCHANGED <<argv, environ, args, base_cargo_args, base_qemu_args,
                   cargo_exit_code, objcopy_exit_code, exit_status>>

\* variant of line 39: cargo started without waiting for it, the build
\* reported as successful at once
UefiCargoStart_no_wait ==
    /\ pc = "dispatch"
    /\ ~bios_branch(args)
    /\ log' = Start(base_cargo_args, FALSE, environ)
    /\ build_ret' = <<0>>
    /\ pc' = "built"
    /\ UNCHANGED <<argv, environ, args, base_cargo_args, base_qemu_args,
                   cargo_exit_code, objcopy_exit_code, exit_status>>

\* line 73 taken, build_with_uefi line 39: start cargo.
UefiCargoStart ==
    /\ pc = "dispatch"
    /\ ~bios_branch(args)
    /\ log' = Start(base_cargo_args, FALSE, environ)
    /\ pc' = "uefi_cargo"
    /\ UNCHANGED <<argv, environ, args, base_cargo_args, base_qemu_args,
                   cargo_exit_code, objcopy_exit_code, build_ret, exit_status>>

\* line 39: cargo returns; its code is build_with_uefi's result.
UefiCargoReturn ==
    /\ pc = "uefi_cargo"
    /\ \E c \in ExitCodes :
        /\ log' = Returned(c)
        /\ build_ret' = <<c>>
    /\ pc' = "built"
    /\ UNCHANGED <<argv, environ, args, base_cargo_args, base_qemu_args,
                   cargo_exit_code, objcopy_exit_code, exit_status>>

\* lines 70-72, run_with_bios lines 32-35: start the BIOS emulator.
RunBiosStart ==
    /\ pc = "built"
    /\ bios_branch(args)
    /\ ShouldRun(build_ret[1], args)
    /\ log' = Start(qemu(base_qemu_args, args.release), FALSE, environ)
    /\ pc' = "qemu"
    /\ UNCHANGED <<argv, environ, args, base_cargo_args, base_qemu_args,
                   cargo_exit_code, objcopy_exit_code, build_ret, exit_status>>

\* lines 74-76, run_with_uefi lines 42-53: start the UEFI emulator.
RunUefiStart ==
    /\ pc = "built"
    /\ ~bios_branch(args)
    /\ ShouldRun(build_ret[1], args)
    /\ log' = Start(uefi_qemu(base_qemu_args, args.release), FALSE, environ)
    /\ pc' = "qemu"
    /\ UNCHANGED <<argv, environ, args, base_cargo_args, base_qemu_args,
                   cargo_exit_code, objcopy_exit_code, build_ret, exit_status>>

\* variant of lines 35 / 45-53: the emulator's code taken as the run's result
QemuReturn_checked ==
    /\ pc = "qemu"
    /\ \E c \in ExitCodes :
        /\ log' = Returned(c)
        /\ build_ret' = <<c>>
    /\ pc' = "end"
    /\ UNCHANGED <<argv, environ, args, base_cargo_args, base_qemu_args,
                   cargo_exit_code, objcopy_exit_code, exit_status>>

\* lines 35 / 45-53: the emulator returns; its code is discarded.
QemuReturn ==
    /\ pc = "qemu"
    /\ \E c \in ExitCodes : log' = Returned(c)
    /\ pc' = "end"
    /\ UNCHANGED <<argv, environ, args, base_cargo_args, base_qemu_args,
                   cargo_exit_code, objcopy_exit_code, build_ret, exit_status>>

\* lines 70-71 / 74-75 not taken: the build failed or --build-only is given.
SkipRun ==
    /\ pc = "built"
    /\ ~ShouldRun(build_ret[1], args)
    /\ pc' = "end"
    /\ UNCHANGED <<argv, environ, args, base_cargo_args, base_qemu_args, log,
                   cargo_exit_code, objcopy_exit_code, build_ret, exit_status>>

\* line 77: the script ends.
Exit ==
    /\ pc = "end"
    /\ exit_status' = <<ScriptExitStatus(build_ret[1])>>
    /\ pc' = "exited"
    /\ UNCHANGED <<argv, environ, args, base_cargo_args, base_qemu_args, log,
                   cargo_exit_code, objcopy_exit_code, build_ret>>

Next ==
    \/ Main
    \/ BiosCargoStart
    \/ BiosCargoReturn
    \/ BiosStripStart
    \/ BiosStripReturn
    \/ BiosBinStart
    \/ BiosBinReturn
    \/ UefiCargoStart
    \/ UefiCargoReturn
    \/ RunBiosStart
    \/ RunUefiStart
    \/ QemuReturn
    \/ SkipRun
    \/ Exit

Spec == Init /\ [][Next]_vars

\* Every subprocess.run blocks until its child returns and the interpreter
\* runs the script to its end: under the assumption that every child returns,
\* some step is always taken while one is possible.
FairSpec == Spec /\ WF_vars(Next)

\* ------------------------------------------------- reading the child log
\* The observable behaviour of a run is the sequence of children it started.
\* A child is recognised by the argument list it was given.
Children == {log[i] : i \in 1..Len(log)}

HasArg(ch, s) == \E i \in 1..Len(ch.argv) : ch.argv[i] = Lit(s)

HasArgPair(ch, s, t) ==
    \E i \in 1..(Len(ch.argv) - 1) : ch.argv[i] = Lit(s) /\ ch.argv[i + 1] = Lit(t)

HasPiece(str, p) == \E i \in 1..Len(str) : str[i] = p

Program(ch) == IF Len(ch.argv) > 0 THEN ch.argv[1] ELSE <<>>

IsCargo(ch) == Program(ch) = Lit("cargo")
IsObjcopy(ch) == Program(ch) = Lit("objcopy")
IsStrip(ch) == IsObjcopy(ch) /\ HasArg(ch, "--only-keep-debug")
IsRawImage(ch) == IsObjcopy(ch) /\ HasArgPair(ch, "-O", "binary")
IsQemu(ch) == Program(ch) = Lit("qemu-system-x86_64")

HasReturned(ch) == ch.returncode # <<>>
Succeeded(ch) == ch.returncode = <<0>>
FailedChild(ch) == HasReturned(ch) /\ ~Succeeded(ch)

FlagGiven(f) == f \in argv

\* ------------------------------------------------------------------ C1
\* C1: for every combination of the four flags, once cargo has returned a
\* non-zero exit code, the run contains no objcopy child and no qemu child.
C1_CompileFailureStopsRun ==
    \A i \in 1..Len(log) :
        (IsCargo(log[i]) /\ FailedChild(log[i]))
            => \A j \in 1..Len(log) : ~IsObjcopy(log[j]) /\ ~IsQemu(log[j])

\* a finished BIOS run without --build-only whose cargo failed
C1_Witness ==
    /\ pc = "exited"
    /\ FlagGiven("--bios") /\ ~FlagGiven("--build-only")
    /\ \E i \in 1..Len(log) : IsCargo(log[i]) /\ FailedChild(log[i])

\* ------------------------------------------------------------------ C2
\* The exit code of the first build child (cargo, symbol extraction, raw
\* image) that returned non-zero, 0 if there is none.
RECURSIVE FirstFailureFrom(_)
FirstFailureFrom(i) ==
    IF i > Len(log) THEN 0
    ELSE IF ~IsQemu(log[i]) /\ FailedChild(log[i]) THEN log[i].returncode[1]
    ELSE FirstFailureFrom(i + 1)

\* C2: the exit status of the script equals the exit code of the first
\* failing stage (compile, symbol extraction, raw-image extraction) and is 0
\* only if no stage failed.
C2_ExitCodeIsFirstFailure ==
    pc = "exited" => exit_status = <<FirstFailureFrom(1)>>

\* ------------------------------------------------------------------ C3
\* C3: with --build-only the emulator is never started, whatever the variant
\* and the outcome of the build; a run with --bios --build-only whose three
\* build children all returned 0 ends without an emulator child.
C3_BuildOnlyNeverLaunches ==
    FlagGiven("--build-only") => \A j \in 1..Len(log) : ~IsQemu(log[j])

\* a finished --bios --build-only run whose build fully succeeded
C3_Witness ==
    /\ pc = "exited"
    /\ FlagGiven("--bios") /\ FlagGiven("--build-only")
    /\ Len(log) = 3
    /\ \A i \in 1..Len(log) : Succeeded(log[i])

\* ------------------------------------------------------------------ C4
\* C4: in the BIOS build the raw-image child (objcopy -O binary) is started
\* only directly after the symbol-extraction child (objcopy --only-keep-debug)
\* has returned 0; once the symbol extraction has returned non-zero there is
\* no raw-image child.
C4_RawImageOnlyAfterSymbolsOk ==
    /\ \A j \in 1..Len(log) :
        IsRawImage(log[j]) =>
            j > 1 /\ IsStrip(log[j - 1]) /\ Succeeded(log[j - 1])
    /\ \A i \in 1..Len(log) :
        (IsStrip(log[i]) /\ FailedChild(log[i]))
            => \A j \in 1..Len(log) : ~IsRawImage(log[j])

\* a finished run whose symbol extraction failed
C4_Witness ==
    /\ pc = "exited"
    /\ \E i \in 1..Len(log) : IsStrip(log[i]) /\ FailedChild(log[i])

\* ------------------------------------------------------------------ C5
\* C5: whenever an emulator child exists, a cargo child returned 0 before it
\* was started and, with --bios, so did both objcopy children; a failed
\* raw-image child is never followed by an emulator child.
C5_LaunchOnlyAfterSuccessfulBuild ==
    /\ \A j \in 1..Len(log) :
        IsQemu(log[j]) =>
            /\ \E i \in 1..(j - 1) : IsCargo(log[i]) /\ Succeeded(log[i])
            /\ FlagGiven("--bios") =>
                /\ \E i \in 1..(j - 1) : IsStrip(log[i]) /\ Succeeded(log[i])
                /\ \E i \in 1..(j - 1) : IsRawImage(log[i]) /\ Succeeded(log[i])
    /\ \A i \in 1..Len(log) :
        (IsRawImage(log[i]) /\ FailedChild(log[i]))
            => \A j \in 1..Len(log) : ~IsQemu(log[j])

\* a finished BIOS run, free to launch, whose raw-image extraction failed
C5_Witness ==
    /\ pc = "exited"
    /\ ~FlagGiven("--build-only")
    /\ \E i \in 1..Len(log) : IsRawImage(log[i]) /\ FailedChild(log[i])

\* ------------------------------------------------------------------ C6
HasToken(ch, tok) == \E i \in 1..Len(ch.argv) : ch.argv[i] = tok

HasTokenPair(ch, tok1, tok2) ==
    \E i \in 1..(Len(ch.argv) - 1) : ch.argv[i] = tok1 /\ ch.argv[i + 1] = tok2

HasPieceAnywhere(ch, p) == \E i \in 1..Len(ch.argv) : HasPiece(ch.argv[i], p)

\* the stages of the two pipelines, told apart by what they are given
BiosCompile(ch) ==
    /\ IsCargo(ch)
    /\ HasArgPair(ch, "--features", "bios")
    /\ HasTokenPair(ch, Lit("--target"), <<root_dir, "/x86_64-bios-target.json">>)

UefiCompile(ch) ==
    /\ IsCargo(ch)
    /\ ~HasArg(ch, "--features")
    /\ HasArgPair(ch, "--target", "x86_64-unknown-uefi")

BiosLaunch(ch) ==
    IsQemu(ch) /\ HasPieceAnywhere(ch, "/bmb_bin") /\ ~HasPieceAnywhere(ch, "if=pflash")

UefiLaunch(ch) ==
    IsQemu(ch) /\ HasPieceAnywhere(ch, "if=pflash") /\ ~HasPieceAnywhere(ch, "/bmb_bin")

\* C6: with --bios every child of the run is a BIOS stage (BIOS compile,
\* objcopy sub-step, BIOS launch); without it every child is a UEFI stage
\* (UEFI compile, UEFI launch) and none is an objcopy; once the script has
\* chosen its branch exactly one compile has been started, for every flag
\* combination.
C6_ExactlyOnePipeline ==
    /\ FlagGiven("--bios") =>
        \A ch \in Children :
            BiosCompile(ch) \/ IsStrip(ch) \/ IsRawImage(ch) \/ BiosLaunch(ch)
    /\ ~FlagGiven("--bios") =>
        \A ch \in Children : UefiCompile(ch) \/ UefiLaunch(ch)
    /\ pc \notin {"main", "dispatch"} =>
        Cardinality({i \in 1..Len(log) : IsCargo(log[i])}) = 1

\* a finished UEFI run that compiled and launched
C6_Witness ==
    /\ pc = "exited"
    /\ ~FlagGiven("--bios")
    /\ Len(log) = 2
    /\ UefiCompile(log[1]) /\ UefiLaunch(log[2])

\* ------------------------------------------------------------------ C7
ProfileDir == IF FlagGiven("--release") THEN "release" ELSE "debug"

NamesProfileDir(ch, d) == HasPieceAnywhere(ch, d)

\* C7: in both variants every child is given paths under the 'release'
\* subdirectory when --release is given and under 'debug' when it is not
\* (never the other one), every objcopy and emulator child does name that
\* subdirectory, and cargo is given --release exactly when the flag is given.
C7_ProfileDirectoryAgrees ==
    \A ch \in Children :
        /\ \A d \in {"debug", "release"} : NamesProfileDir(ch, d) => d = ProfileDir
        /\ (IsObjcopy(ch) \/ IsQemu(ch)) => NamesProfileDir(ch, ProfileDir)
        /\ IsCargo(ch) => (HasArg(ch, "--release") <=> FlagGiven("--release"))

\* a finished BIOS release run that went through all four children
C7_Witness ==
    /\ pc = "exited"
    /\ FlagGiven("--bios") /\ FlagGiven("--release")
    /\ Len(log) = 4
    /\ IsQemu(log[4])

\* ------------------------------------------------------------------ C8
\* C8: with --debug, every emulator child (either variant) has both -S and -s
\* in its argument list.
C8_DebugFlagsPassed ==
    FlagGiven("--debug") =>
        \A ch \in Children : IsQemu(ch) => HasArg(ch, "-S") /\ HasArg(ch, "-s")

\* the BIOS emulator has been started in a --debug run
C8_Witness ==
    /\ FlagGiven("--debug") /\ FlagGiven("--bios")
    /\ \E ch \in Children : IsQemu(ch)

\* ------------------------------------------------------------------ C9
LinkerFlags == <<"-C link-args=", root_dir, "/linker.ld">>

\* C9: the BIOS cargo child is given --features bios and an environment that
\* is os.environ with RUSTFLAGS overridden by the linker-script flags; the
\* UEFI cargo child is given no --features and no environment of its own.
C9_CompileFlagsAndEnvironment ==
    \A ch \in Children :
        IsCargo(ch) =>
            IF FlagGiven("--bios")
            THEN /\ HasArgPair(ch, "--features", "bios")
                 /\ ch.env_given
                 /\ DOMAIN ch.env = (DOMAIN environ) \cup {"RUSTFLAGS"}
                 /\ ch.env["RUSTFLAGS"] = LinkerFlags
                 /\ \A k \in (DOMAIN environ) \ {"RUSTFLAGS"} : ch.env[k] = environ[k]
            ELSE /\ ~HasArg(ch, "--features")
                 /\ ~ch.env_given
                 /\ ch.env = environ

\* the BIOS cargo child has been started from an environment that sets both
\* PATH and a RUSTFLAGS of its own
C9_Witness ==
    /\ FlagGiven("--bios")
    /\ DOMAIN environ = EnvVars
    /\ \E ch \in Children : IsCargo(ch)

\* ----------------------------------------------------------------- C10
\* the option strings that follow a -drive in the argument list
Drives(ch) == {ch.argv[i + 1] : i \in {k \in 1..(Len(ch.argv) - 1) : ch.argv[k] = Lit("-drive")}}

DriveCount(ch) == Cardinality({k \in 1..Len(ch.argv) : ch.argv[k] = Lit("-drive")})

FirmwareDrives(ch) ==
    /\ Cardinality({d \in Drives(ch) : HasPiece(d, "if=pflash")}) = 2
    /\ \E d \in Drives(ch) :
        HasPiece(d, "if=pflash") /\ HasPiece(d, ",file=OVMF_CODE.fd") /\ HasPiece(d, ",readonly=on")
    /\ \E d \in Drives(ch) :
        HasPiece(d, "if=pflash") /\ HasPiece(d, ",file=OVMF_VARS.fd") /\ ~HasPiece(d, ",readonly=on")

FatDrive(ch) ==
    /\ DriveCount(ch) = 3
    /\ <<"format=raw", ",file=fat:rw:", root_dir, "/target/x86_64-unknown-uefi/", ProfileDir>>
            \in Drives(ch)

GenericCpu(ch) == HasArgPair(ch, "-cpu", "qemu64")

NetworkOptions == {"-net", "-nic", "-netdev", "-nodefaults"}

DisablesNetworking(ch) == HasArgPair(ch, "-net", "none") \/ HasArgPair(ch, "-nic", "none")

\* C10 as stated: the UEFI emulator is given the two firmware drives, the FAT
\* drive on the build directory, an option that disables networking, and a
\* generic CPU model.
C10_UefiLaunchArguments_AsStated ==
    ~FlagGiven("--bios") =>
        \A ch \in Children :
            IsQemu(ch) =>
                FirmwareDrives(ch) /\ FatDrive(ch) /\ DisablesNetworking(ch) /\ GenericCpu(ch)

\* C10 (amended): the UEFI emulator is given two pflash drives (OVMF_CODE.fd
\* read-only, OVMF_VARS.fd writable), a third drive exposing the build
\* directory of the (UEFI, release) pair as a FAT filesystem, and the generic
\* CPU model qemu64; it is given no networking option at all.
C10_UefiLaunchArguments ==
    ~FlagGiven("--bios") =>
        \A ch \in Children :
            IsQemu(ch) =>
                /\ FirmwareDrives(ch) /\ FatDrive(ch) /\ GenericCpu(ch)
                /\ \A n \in NetworkOptions : ~HasArg(ch, n)

\* the UEFI emulator has been started in a --release run
C10_Witness ==
    /\ ~FlagGiven("--bios") /\ FlagGiven("--release")
    /\ \E ch \in Children : IsQemu(ch)

\* ----------------------------------------------------------------- C11
\* C11: build_with_bios returns the exit code of the first of its three
\* children (cargo, symbol extraction, raw image, in that order) that returned
\* non-zero, and returns 0 exactly when all three returned 0.
C11_BiosBuildResult ==
    (FlagGiven("--bios") /\ build_ret # <<>>) =>
        /\ build_ret = <<FirstFailureFrom(1)>>
        /\ build_ret = <<0>> <=>
            /\ \E i \in 1..Len(log) : IsCargo(log[i]) /\ Succeeded(log[i])
            /\ \E i \in 1..Len(log) : IsStrip(log[i]) /\ Succeeded(log[i])
            /\ \E i \in 1..Len(log) : IsRawImage(log[i]) /\ Succeeded(log[i])

\* build_with_bios has just returned the code of a failed raw-image extraction
C11_Witness ==
    /\ pc = "built"
    /\ FlagGiven("--bios")
    /\ Len(log) = 3
    /\ IsRawImage(log[3]) /\ FailedChild(log[3])

\* ----------------------------------------------------------------- C12
\* The state of the orchestrator's state machine the script is in, read off
\* its position and the result of the build function.
OrchState ==
    CASE pc \in {"main", "dispatch"} -> "Idle"
      [] pc \in {"bios_cargo", "uefi_cargo"} -> "Compiling"
      [] pc \in {"bios_strip_start", "bios_strip", "bios_bin_start", "bios_bin"} -> "Extracting"
      [] pc = "qemu" -> "Launching"
      [] pc = "built" ->
            IF build_ret # <<0>> THEN "Failed"
            ELSE IF args.build_only THEN "Done" ELSE "Launching"
      [] OTHER -> IF build_ret # <<0>> THEN "Failed" ELSE "Done"

\* C12: once the emulator child has returned, with a zero or a non-zero code,
\* the run is Done and not Failed, the emulator is the last child started,
\* and the script's exit status does not carry the emulator's code.
C12_EmulatorStatusIgnored ==
    \A i \in 1..Len(log) :
        (IsQemu(log[i]) /\ HasReturned(log[i])) =>
            /\ OrchState = "Done"
            /\ i = Len(log)
            /\ exit_status \in {<<>>, <<0>>}

\* a finished run whose emulator returned a non-zero code
C12_Witness ==
    /\ pc = "exited"
    /\ \E i \in 1..Len(log) : IsQemu(log[i]) /\ FailedChild(log[i])

\* ----------------------------------------------------------------- C13
Count(P(_)) == Cardinality({i \in 1..Len(log) : P(log[i])})

\* C13: in a run each external command (cargo, symbol extraction, raw-image
\* extraction, emulator) is started at most once, and no child is started
\* after a build child has returned non-zero.
C13_NoRetryFailFast ==
    /\ Count(IsCargo) <= 1
    /\ Count(IsStrip) <= 1
    /\ Count(IsRawImage) <= 1
    /\ Count(IsQemu) <= 1
    /\ \A i \in 1..Len(log) :
        (~IsQemu(log[i]) /\ FailedChild(log[i])) => i = Len(log)

\* a finished run that was free to launch and whose symbol extraction failed
C13_Witness ==
    /\ pc = "exited"
    /\ ~FlagGiven("--build-only")
    /\ Len(log) = 2
    /\ IsStrip(log[2]) /\ FailedChild(log[2])

\* ----------------------------------------------------------------- C14
\* the place of a child in the order compile, symbol extraction, raw image,
\* launch
Rank(ch) ==
    IF IsCargo(ch) THEN 1
    ELSE IF IsStrip(ch) THEN 2
    ELSE IF IsRawImage(ch) THEN 3
    ELSE IF IsQemu(ch) THEN 4
    ELSE 0

\* C14: at most one child is running at any moment, a child is started only
\* after every earlier child has returned, and the children of a run are
\* started in the order compile, symbol extraction, raw-image extraction,
\* launch, the two extractions with --bios only.
C14_StrictlySequential ==
    /\ Cardinality({i \in 1..Len(log) : ~HasReturned(log[i])}) <= 1
    /\ \A i \in 1..(Len(log) - 1) : HasReturned(log[i])
    /\ \A i \in 1..Len(log) : Rank(log[i]) \in 1..4
    /\ \A i \in 1..(Len(log) - 1) : Rank(log[i]) < Rank(log[i + 1])
    /\ Len(log) > 0 => IsCargo(log[1])
    /\ ~FlagGiven("--bios") => \A i \in 1..Len(log) : ~IsObjcopy(log[i])

\* the emulator is running as the fourth child of a BIOS run
C14_Witness ==
    /\ Len(log) = 4
    /\ IsQemu(log[4]) /\ ~HasReturned(log[4])

\* ----------------------------------------------------------------- C15
\* every build child of the selected variant has returned 0
BuildSucceeded ==
    /\ \E i \in 1..Len(log) : IsCargo(log[i]) /\ Succeeded(log[i])
    /\ FlagGiven("--bios") =>
        /\ \E i \in 1..Len(log) : IsStrip(log[i]) /\ Succeeded(log[i])
        /\ \E i \in 1..Len(log) : IsRawImage(log[i]) /\ Succeeded(log[i])

LaunchedIfDue ==
    (BuildSucceeded /\ ~FlagGiven("--build-only")) => \E i \in 1..Len(log) : IsQemu(log[i])

\* C15: if every child that is started returns, every run, for every flag
\* set and every combination of exit codes, eventually terminates, and when
\* all build children returned 0 and --build-only is not given the emulator
\* has been started by then.
C15_Terminates == <>(pc = "exited" /\ OrchState \in {"Done", "Failed"} /\ LaunchedIfDue)

\* a terminated run whose build succeeded and whose emulator was started
C15_Witness ==
    /\ pc = "exited"
    /\ BuildSucceeded /\ ~FlagGiven("--build-only")
    /\ \E i \in 1..Len(log) : IsQemu(log[i])

\* ----------------------------------------------------------------- C16
\* C16: without --debug no emulator child, BIOS or UEFI, has -S or -s in its
\* argument list.
C16_NoDebugStubWithoutDebug ==
    ~FlagGiven("--debug") =>
        \A ch \in Children : IsQemu(ch) => ~HasArg(ch, "-S") /\ ~HasArg(ch, "-s")

\* ----------------------------------------------------------------- C17
\* the input and the output file of an objcopy child: its last two arguments
InputFile(ch) == ch.argv[Len(ch.argv) - 1]
OutputFile(ch) == ch.argv[Len(ch.argv)]

\* C17: with --bios, the file of the emulator's raw-format drive is the file
\* the raw-image extraction of the same run wrote (bmb_bin in the build
\* directory of the release flag), and the two extractions read the same
\* compiled binary.
C17_LaunchReadsExtractedImage ==
    FlagGiven("--bios") =>
        /\ \A q \in Children :
            IsQemu(q) =>
                \E r \in Children :
                    /\ IsRawImage(r) /\ Succeeded(r)
                    /\ (<<"file=">> \o OutputFile(r) \o <<",format=raw">>) \in Drives(q)
                    /\ HasPiece(OutputFile(r), "/bmb_bin")
                    /\ HasPiece(OutputFile(r), ProfileDir)
        /\ \A x \in Children : \A r \in Children :
            (IsStrip(x) /\ IsRawImage(r)) => InputFile(x) = InputFile(r)

\* the BIOS emulator has been started in a --release run
C17_Witness ==
    /\ FlagGiven("--bios") /\ FlagGiven("--release")
    /\ \E ch \in Children : IsQemu(ch)

====
